---- MODULE Spec2Model ----
(***************************************************************************)
(* The four Pythia driver programs of jaimanm/qml-hadron as one state      *)
(* machine: first_emitted.cc, hadronic50gev.cc, jinghong-test.cc, main.cc. *)
(* Each program seeds a quark pair, asks the generator for an event, scans *)
(* the particle list and appends rows to a CSV file.  The generator is an  *)
(* opaque collaborator: pythia.next() may fail, and the list it leaves on  *)
(* success (the seed partons included) is any non-empty particle list of a *)
(* bounded family.                                                         *)
(*                                                                         *)
(* Particle indices are the C++ ones (0-based); event is a TLA+ sequence,  *)
(* so the particle with index i is event[i + 1].                           *)
(*                                                                         *)
(* Production times are doubles in the code.  A time is modelled exactly   *)
(* as u + t * 1e-10 with u, t naturals and t far below 1e10, kept as the   *)
(* record [u, t]: order and the tolerance test are then computed without   *)
(* rounding.  timeTolerance is 1e-10, i.e. one unit of t.                  *)
(***************************************************************************)
EXTENDS Integers, Sequences, FiniteSets, TLC

\* ------------------------------------------------------------- bounds
MaxEvents == 2        \* nEvent of a full run (10 / 10000 in the programs)
MaxParticles == 2     \* longest particle list the generator returns
MaxTick == 2          \* largest vertex time, in units of 1e-10
MaxEnergy == 2        \* largest particle energy
MaxCandidates == 3    \* longest list of the family that varies the times

\* ---------------------------------------------------------- constants
timeTolerance == 1    \* 1e-10, in units of 1e-10

VARIABLES
  prog,                      \* which program runs
  generator,                 \* the event family the generator draws from
  nEvent,                    \* int nEvent
  pc,                        \* position in main()
  iEvent,                    \* loop counter
  event,                     \* pythia.event after the last next()
  primaryHadrons,            \* first_emitted: vector<pair<int,int>>
  hadronTimes,               \* first_emitted: vector<tuple<double,int,int>>
  simultaneousFirstHadrons,  \* first_emitted: vector<int>
  mostEnergeticPion,         \* hadronic50gev: int
  csvFile,                   \* the output file: opens, closes, lines
  console,                   \* number of "Hadronization failed!" lines
  attempted                  \* history: the calls of pythia.next() and their results

vars == <<prog, generator, nEvent, pc, iEvent, event, primaryHadrons,
          hadronTimes, simultaneousFirstHadrons, mostEnergeticPion,
          csvFile, console, attempted>>

Programs == {"first_emitted", "hadronic50gev", "jinghong-test", "main"}

\* ------------------------------------------------------ particle data
\* the vt of a particle whose vProd() throws
NoVertex == -1

abs(x) == IF x < 0 THEN -x ELSE x

\* Particle::vProd().e(): a vertex time of t ticks is the double t * 1e-10
VertexTime(p) == [u |-> 0, t |-> p.vt]

\* static_cast<double>(idx): the list index as a time
IndexTime(idx) == [u |-> idx, t |-> 0]

\* Particle::isFinal(): status > 0 (the sign convention first_emitted prints)
isFinal(p) == p.status > 0

\* Particle::isHadron(): the generator's species classification
isHadron(p) == p.hadron

\* Statuses around the primary range, as first_emitted reads them
RichStatus == {0, 80, 81, 89, 90, -80, -81, -89, -90}

Particle(ids, statuses, hadrons, energies, vts) ==
  [id : ids, status : statuses, hadron : hadrons, e : energies, vt : vts]

\* The particles the generator may return, per program and family.  The
\* fields a program never reads are fixed: first_emitted reads the vertex
\* of primary hadrons only, hadronic50gev the energy of pions only.  The
\* family "times" varies the vertex of first_emitted's candidates over
\* longer lists and is the lean one for the other programs.
Particles(p, g) ==
  CASE p = "first_emitted" /\ g = "rich" ->
         {q \in Particle({211}, RichStatus, BOOLEAN, {1}, {NoVertex} \cup 0..MaxTick) :
            q.vt # 0 => q.hadron /\ abs(q.status) \in {81, 89}}
    [] p = "first_emitted" /\ g = "times" ->
         {q \in Particle({211}, {84, 91}, {TRUE}, {1}, {NoVertex} \cup 0..MaxTick) :
            q.vt # 0 => q.status = 84}
    [] p = "first_emitted" /\ g = "lean" ->
         {q \in Particle({211}, {84, -84, 91}, {TRUE}, {1}, {0, MaxTick}) :
            q.vt # 0 <=> q.status = -84}
    [] p = "hadronic50gev" /\ g = "rich" ->
         {q \in Particle({111, -111, 211, -211, 321}, {1, -1}, {TRUE}, 0..MaxEnergy, {0}) :
            q.e # 1 => q.id # 321}
    [] p = "hadronic50gev" /\ g \in {"lean", "times"} ->
         {q \in Particle({211}, {1, -1}, {TRUE}, {1, MaxEnergy}, {0}) :
            q.e # 1 => q.status = 1}
    [] p = "jinghong-test" /\ g = "rich" ->
         Particle({1, 211}, {1, 0, -1, 83, -83}, {TRUE}, {1}, {0})
    [] p = "jinghong-test" /\ g \in {"lean", "times"} ->
         Particle({211}, {1, -1}, {TRUE}, {1}, {0})
    [] p = "main" /\ g = "rich" ->
         Particle({211}, {1, 0, -1, 83, -83}, BOOLEAN, {1}, {0})
    [] p = "main" /\ g \in {"lean", "times"} ->
         {q \in Particle({211}, {1, -1}, BOOLEAN, {1}, {0}) :
            q.status = -1 => q.hadron}

\* the non-empty lists: index 0 always holds an entry
SeqsUpTo(S, n) == UNION {[1..k -> S] : k \in 1..n}

\* The particle lists a successful pythia.next() may leave in pythia.event
Events(p, g) ==
  SeqsUpTo(Particles(p, g),
           IF p = "first_emitted" /\ g = "times" THEN MaxCandidates ELSE MaxParticles)

size(ev) == Len(ev)
at(ev, i) == ev[i + 1]

\* --------------------------------------------------------- formatting
Digits == <<"0", "1", "2", "3", "4", "5", "6", "7", "8", "9">>

\* std::to_string / operator<< of a non-negative int: its decimal digits
RECURSIVE to_string(_)
to_string(n) ==
  IF n < 10 THEN <<Digits[n + 1]>>
  ELSE to_string(n \div 10) \o <<Digits[(n % 10) + 1]>>

\* the column names, written once after the file is opened
header == [kind |-> "header"]

\* One line of the file: the Event field as written, and the particle whose
\* columns the line carries (Index, ID, Status, momenta, ... are its fields).
Row(eventField, idx, p) ==
  [kind |-> "row", Event |-> eventField, Index |-> idx, particle |-> p]

IsRow(line) == line.kind = "row"

DataRows == SelectSeq(csvFile.lines, IsRow)

\* ------------------------------------------------------ first_emitted
\* the classifier without abs(): negative statuses are lost
isPrimaryHadron_noAbs(p) ==
  (p.status >= 81 /\ p.status <= 89) /\ isHadron(p)

\* the classifier with its upper bound mistyped as 91
isPrimaryHadron_to91(p) ==
  (abs(p.status) >= 81 /\ abs(p.status) <= 91) /\ isHadron(p)

\* the classifier condition of Step 1
isPrimaryHadron(p) ==
  (abs(p.status) >= 81 /\ abs(p.status) <= 89) /\ isHadron(p)

\* Step 1: for (i = 0; i < event.size(); ++i) push_back({i, status})
RECURSIVE CollectPrimary(_, _, _)
CollectPrimary(ev, i, acc) ==
  IF i >= size(ev) THEN acc
  ELSE CollectPrimary(ev, i + 1,
         IF isPrimaryHadron(at(ev, i))
         THEN Append(acc, <<i, at(ev, i).status>>)
         ELSE acc)

\* the try/catch around vProd(): the vertex time, else the index
ProdTime(ev, idx) ==
  IF at(ev, idx).vt # NoVertex THEN VertexTime(at(ev, idx)) ELSE IndexTime(idx)

\* Step 3: hadronTimes.emplace_back(prodTime, idx, hadron.second)
CollectTimes(ev, primary) ==
  [j \in 1..Len(primary) |->
     <<ProdTime(ev, primary[j][1]), primary[j][1], primary[j][2]>>]

\* operator< of double
TimeLess(a, b) == a.u < b.u \/ (a.u = b.u /\ a.t < b.t)

\* a comparison that puts the later list index first among equal times
TupleLess_indexLast(x, y) ==
  \/ TimeLess(x[1], y[1])
  \/ x[1] = y[1] /\ x[2] > y[2]

\* operator< of std::tuple<double,int,int>: lexicographic
TupleLess(x, y) ==
  \/ TimeLess(x[1], y[1])
  \/ x[1] = y[1] /\ x[2] < y[2]
  \/ x[1] = y[1] /\ x[2] = y[2] /\ x[3] < y[3]

RECURSIVE Insert(_, _)
Insert(s, x) ==
  IF s = <<>> THEN <<x>>
  ELSE IF TupleLess(x, Head(s)) THEN <<x>> \o s
  ELSE <<Head(s)>> \o Insert(Tail(s), x)

\* the sort left out: hadronTimes stays in list order
Sort_none(s) == s

\* std::sort(hadronTimes.begin(), hadronTimes.end())
RECURSIVE Sort(_)
Sort(s) == IF s = <<>> THEN <<>> ELSE Insert(Sort(Tail(s)), Head(s))

\* prodTime - earliestTime <= timeTolerance.  With both t below 1e10 the
\* difference of the u parts decides unless they are equal.
WithinTolerance(prodTime, earliestTime) ==
  \/ prodTime.u < earliestTime.u
  \/ prodTime.u = earliestTime.u /\ prodTime.t - earliestTime.t <= timeTolerance

\* the loop over hadronTimes with its break
RECURSIVE CollectSimultaneous(_, _, _)
CollectSimultaneous(times, earliestTime, acc) ==
  IF times = <<>> THEN acc
  ELSE IF WithinTolerance(Head(times)[1], earliestTime)
       THEN CollectSimultaneous(Tail(times), earliestTime,
                                Append(acc, Head(times)[2]))
       ELSE acc

Simultaneous(times) ==
  IF times = <<>> THEN <<>>
  ELSE CollectSimultaneous(times, times[1][1], <<>>)

\* the suffix left out
Suffix_none(n, k) == <<>>

\* the suffix of the multi-hadron branch: "_" + std::to_string(k+1)
Suffix(n, k) == IF n > 1 THEN <<"_">> \o to_string(k + 1) ELSE <<>>

\* the export loop started at k = 1
MultiRows_fromOne(i, ev, group) ==
  [j \in 1..(Len(group) - 1) |->
     Row(to_string(i) \o Suffix(Len(group), j), group[j + 1], at(ev, group[j + 1]))]

\* for (k = 0; k < simultaneousFirstHadrons.size(); ++k) csvFile << ...
MultiRows(i, ev, group) ==
  [j \in 1..Len(group) |->
     Row(to_string(i) \o Suffix(Len(group), j - 1), group[j], at(ev, group[j]))]

\* the single first hadron case
SingleRow(i, ev, group) == <<Row(to_string(i), group[1], at(ev, group[1]))>>

\* ------------------------------------------------------ hadronic50gev
\* pidAbs == 111 || pidAbs == 211
isPion(p) == abs(p.id) = 111 \/ abs(p.id) = 211

\* the scan with energy >= maxEnergy: the last of equal pions wins
RECURSIVE ScanPions_orEqual(_, _, _)
ScanPions_orEqual(ev, i, best) ==
  IF i >= size(ev) THEN best
  ELSE ScanPions_orEqual(ev, i + 1,
         IF isPion(at(ev, i)) /\ isFinal(at(ev, i)) /\ at(ev, i).e >= best[2]
         THEN <<i, at(ev, i).e>>
         ELSE best)

\* the scan for the most energetic pion: <<mostEnergeticPion, maxEnergy>>
RECURSIVE ScanPions(_, _, _)
ScanPions(ev, i, best) ==
  IF i >= size(ev) THEN best
  ELSE ScanPions(ev, i + 1,
         IF isPion(at(ev, i)) /\ isFinal(at(ev, i)) /\ at(ev, i).e > best[2]
         THEN <<i, at(ev, i).e>>
         ELSE best)

\* int mostEnergeticPion = -1; double maxEnergy = 0.0; then the scan
MostEnergeticPion(ev) == ScanPions(ev, 0, <<-1, 0>>)[1]

\* ------------------------------------------------------ jinghong-test
\* for (p : event) if (p.isFinal()) { ...; break; }: the index written, or -1
RECURSIVE FirstFinal(_, _)
FirstFinal(ev, i) ==
  IF i >= size(ev) THEN -1
  ELSE IF isFinal(at(ev, i)) THEN i
  ELSE FirstFinal(ev, i + 1)

\* --------------------------------------------------------------- main
\* the momentum export with the isFinal() test left out
MomentumRows_anyHadron(iEv, ev, i, acc) ==
  [j \in 1..Len(SelectSeq(ev, isHadron)) |->
     LET k == CHOOSE k \in 0..(size(ev) - 1) :
                /\ isHadron(at(ev, k))
                /\ Cardinality({m \in 0..k : isHadron(at(ev, m))}) = j
     IN Row(to_string(iEv), k, at(ev, k))]

\* the momentum export loop: a row for each final-state hadron
RECURSIVE MomentumRows(_, _, _, _)
MomentumRows(iEv, ev, i, acc) ==
  IF i >= size(ev) THEN acc
  ELSE MomentumRows(iEv, ev, i + 1,
         IF isFinal(at(ev, i)) /\ isHadron(at(ev, i))
         THEN Append(acc, Row(to_string(iEv), i, at(ev, i)))
         ELSE acc)

\* ------------------------------------------------------ the programs
\* main.cc runs a printing loop before it opens its file
StartPc(p) == IF p = "main" THEN "print" ELSE "start"

InitWith(g, n) ==
  /\ prog \in Programs
  /\ generator = g
  /\ nEvent = n
  /\ pc = StartPc(prog)
  /\ iEvent = 0
  /\ event = <<>>
  /\ primaryHadrons = <<>>
  /\ hadronTimes = <<>>
  /\ simultaneousFirstHadrons = <<>>
  /\ mostEnergeticPion = -1
  /\ csvFile = [opens |-> 0, closes |-> 0, lines |-> <<>>]
  /\ console = 0
  /\ attempted = <<>>

\* a full run over the lean event family
Init == InitWith("lean", MaxEvents)

\* a run of one event over the rich event family
InitEvent == InitWith("rich", 1)

Write(rows) == [csvFile EXCEPT !.lines = @ \o rows]

\* std::ofstream f(...); f << header
Opened == [csvFile EXCEPT !.opens = @ + 1, !.lines = @ \o <<header>>]

\* f.close()
Closed == [csvFile EXCEPT !.closes = @ + 1]

\* the loop condition written iEvent <= nEvent
InLoop_through(p) == prog = p /\ pc = "loop" /\ iEvent <= nEvent

\* where the exporting loop of each program stands
InLoop(p) == prog = p /\ pc = "loop" /\ iEvent < nEvent

LoopDone(p) == prog = p /\ pc = "loop" /\ iEvent >= nEvent

\* one call of pythia.next(): the loop, the event index, what it returned
Attempt(ok) == Append(attempted, [loop |-> pc, i |-> iEvent, ok |-> ok])

config == <<prog, generator, nEvent>>

locals == <<primaryHadrons, hadronTimes, simultaneousFirstHadrons, mostEnergeticPion>>

\* ---- first_emitted.cc
\* std::ofstream csvFile(...); csvFile << header
first_emitted_open ==
  /\ prog = "first_emitted" /\ pc = "start"
  /\ csvFile' = Opened
  /\ pc' = "loop"
  /\ iEvent' = 0
  /\ UNCHANGED <<config, locals, event, console, attempted>>

\* if (!pythia.next()) { cout << "Hadronization failed!"; continue; }
first_emitted_failed ==
  /\ InLoop("first_emitted")
  /\ event' = <<>>
  /\ console' = console + 1
  /\ primaryHadrons' = <<>>
  /\ hadronTimes' = <<>>
  /\ simultaneousFirstHadrons' = <<>>
  /\ attempted' = Attempt(FALSE)
  /\ iEvent' = iEvent + 1
  /\ UNCHANGED <<config, pc, mostEnergeticPion, csvFile>>

\* if (primaryHadrons.empty()) continue;
first_emitted_empty ==
  /\ InLoop("first_emitted")
  /\ \E ev \in Events(prog, generator) :
       /\ CollectPrimary(ev, 0, <<>>) = <<>>
       /\ event' = ev
  /\ primaryHadrons' = <<>>
  /\ hadronTimes' = <<>>
  /\ simultaneousFirstHadrons' = <<>>
  /\ attempted' = Attempt(TRUE)
  /\ iEvent' = iEvent + 1
  /\ UNCHANGED <<config, pc, mostEnergeticPion, csvFile, console>>

\* Steps 1 and 3 of one iteration: candidates, sorted times, group
Resolve(ev) ==
  LET primary == CollectPrimary(ev, 0, <<>>)
      times == Sort(CollectTimes(ev, primary))
  IN [primary |-> primary, times |-> times, group |-> Simultaneous(times)]

\* if (simultaneousFirstHadrons.size() > 1) { ... save all ... }
first_emitted_multi ==
  /\ InLoop("first_emitted")
  /\ \E ev \in Events(prog, generator) :
       LET r == Resolve(ev)
       IN /\ r.primary # <<>>
          /\ Len(r.group) > 1
          /\ event' = ev
          /\ primaryHadrons' = r.primary
          /\ hadronTimes' = r.times
          /\ simultaneousFirstHadrons' = r.group
          /\ csvFile' = Write(MultiRows(iEvent, ev, r.group))
  /\ attempted' = Attempt(TRUE)
  /\ iEvent' = iEvent + 1
  /\ UNCHANGED <<config, pc, mostEnergeticPion, console>>

\* else { single first hadron case: save to CSV }
first_emitted_single ==
  /\ InLoop("first_emitted")
  /\ \E ev \in Events(prog, generator) :
       LET r == Resolve(ev)
       IN /\ r.primary # <<>>
          /\ ~(Len(r.group) > 1)
          /\ event' = ev
          /\ primaryHadrons' = r.primary
          /\ hadronTimes' = r.times
          /\ simultaneousFirstHadrons' = r.group
          /\ csvFile' = Write(SingleRow(iEvent, ev, r.group))
  /\ attempted' = Attempt(TRUE)
  /\ iEvent' = iEvent + 1
  /\ UNCHANGED <<config, pc, mostEnergeticPion, console>>

\* csvFile.close() after the loop
first_emitted_close ==
  /\ LoopDone("first_emitted")
  /\ csvFile' = Closed
  /\ pc' = "done"
  /\ UNCHANGED <<config, locals, iEvent, event, console, attempted>>

\* ---- hadronic50gev.cc
hadronic50gev_open ==
  /\ prog = "hadronic50gev" /\ pc = "start"
  /\ csvFile' = Opened
  /\ pc' = "loop"
  /\ iEvent' = 0
  /\ UNCHANGED <<config, locals, event, console, attempted>>

hadronic50gev_failed ==
  /\ InLoop("hadronic50gev")
  /\ event' = <<>>
  /\ console' = console + 1
  /\ attempted' = Attempt(FALSE)
  /\ iEvent' = iEvent + 1
  /\ UNCHANGED <<config, locals, pc, csvFile>>

\* the scan, then if (mostEnergeticPion >= 0) ofs << ...
hadronic50gev_event ==
  /\ InLoop("hadronic50gev")
  /\ \E ev \in Events(prog, generator) :
       LET best == MostEnergeticPion(ev)
       IN /\ event' = ev
          /\ mostEnergeticPion' = best
          /\ csvFile' = IF best >= 0
                        THEN Write(<<Row(to_string(iEvent), best, at(ev, best))>>)
                        ELSE csvFile
  /\ attempted' = Attempt(TRUE)
  /\ iEvent' = iEvent + 1
  /\ UNCHANGED <<config, pc, primaryHadrons, hadronTimes,
                 simultaneousFirstHadrons, console>>

hadronic50gev_close ==
  /\ LoopDone("hadronic50gev")
  /\ csvFile' = Closed
  /\ pc' = "done"
  /\ UNCHANGED <<config, locals, iEvent, event, console, attempted>>

\* ---- jinghong-test.cc
jinghong_open ==
  /\ prog = "jinghong-test" /\ pc = "start"
  /\ csvFile' = Opened
  /\ pc' = "loop"
  /\ iEvent' = 0
  /\ UNCHANGED <<config, locals, event, console, attempted>>

jinghong_failed ==
  /\ InLoop("jinghong-test")
  /\ event' = <<>>
  /\ console' = console + 1
  /\ attempted' = Attempt(FALSE)
  /\ iEvent' = iEvent + 1
  /\ UNCHANGED <<config, locals, pc, csvFile>>

\* output first emission: the first final particle, if any
jinghong_event ==
  /\ InLoop("jinghong-test")
  /\ \E ev \in Events(prog, generator) :
       LET first == FirstFinal(ev, 0)
       IN /\ event' = ev
          /\ csvFile' = IF first >= 0
                        THEN Write(<<Row(to_string(iEvent), first, at(ev, first))>>)
                        ELSE csvFile
  /\ attempted' = Attempt(TRUE)
  /\ iEvent' = iEvent + 1
  /\ UNCHANGED <<config, locals, pc, console>>

jinghong_close ==
  /\ LoopDone("jinghong-test")
  /\ csvFile' = Closed
  /\ pc' = "done"
  /\ UNCHANGED <<config, locals, iEvent, event, console, attempted>>

\* ---- main.cc
\* the first loop: a failed event
main_print_failed ==
  /\ prog = "main" /\ pc = "print" /\ iEvent < nEvent
  /\ event' = <<>>
  /\ console' = console + 1
  /\ attempted' = Attempt(FALSE)
  /\ iEvent' = iEvent + 1
  /\ UNCHANGED <<config, locals, pc, csvFile>>

\* the first loop: the final-state hadrons go to the console only
main_print_event ==
  /\ prog = "main" /\ pc = "print" /\ iEvent < nEvent
  /\ \E ev \in Events(prog, generator) : event' = ev
  /\ attempted' = Attempt(TRUE)
  /\ iEvent' = iEvent + 1
  /\ UNCHANGED <<config, locals, pc, csvFile, console>>

\* std::ofstream momentumFile(...); momentumFile << header; second loop
main_open ==
  /\ prog = "main" /\ pc = "print" /\ iEvent >= nEvent
  /\ csvFile' = Opened
  /\ pc' = "loop"
  /\ iEvent' = 0
  /\ UNCHANGED <<config, locals, event, console, attempted>>

\* the failed event generated again: the counter stays
main_failed_retry ==
  /\ InLoop("main")
  /\ event' = <<>>
  /\ console' = console + 1
  /\ attempted' = Attempt(FALSE)
  /\ iEvent' = iEvent
  /\ UNCHANGED <<config, locals, pc, csvFile>>

main_failed ==
  /\ InLoop("main")
  /\ event' = <<>>
  /\ console' = console + 1
  /\ attempted' = Attempt(FALSE)
  /\ iEvent' = iEvent + 1
  /\ UNCHANGED <<config, locals, pc, csvFile>>

\* save momentum data for final-state hadrons
main_event ==
  /\ InLoop("main")
  /\ \E ev \in Events(prog, generator) :
       /\ event' = ev
       /\ csvFile' = Write(MomentumRows(iEvent, ev, 0, <<>>))
  /\ attempted' = Attempt(TRUE)
  /\ iEvent' = iEvent + 1
  /\ UNCHANGED <<config, locals, pc, console>>

main_close ==
  /\ LoopDone("main")
  /\ csvFile' = Closed
  /\ pc' = "done"
  /\ UNCHANGED <<config, locals, iEvent, event, console, attempted>>

Next ==
  \/ first_emitted_open
  \/ first_emitted_failed
  \/ first_emitted_empty
  \/ first_emitted_multi
  \/ first_emitted_single
  \/ first_emitted_close
  \/ hadronic50gev_open
  \/ hadronic50gev_failed
  \/ hadronic50gev_event
  \/ hadronic50gev_close
  \/ jinghong_open
  \/ jinghong_failed
  \/ jinghong_event
  \/ jinghong_close
  \/ main_print_failed
  \/ main_print_event
  \/ main_open
  \/ main_failed
  \/ main_event
  \/ main_close

\* full runs of the four programs
Spec == Init /\ [][Next]_vars

\* the programs run to completion: a sequential main() always takes its next step
FairSpec == Spec /\ WF_vars(Next)

\* one event per run, over the rich event family
SpecEvent == InitEvent /\ [][Next]_vars

\* a run of one event over the family that varies the production times
InitTimes == InitWith("times", 1)

SpecTimes == InitTimes /\ [][Next]_vars
\* ========================================================= properties
Indices(ev) == 0..(size(ev) - 1)

Range(f) == {f[j] : j \in DOMAIN f}

PrimaryRange == (81..89) \cup {-st : st \in 81..89}

\* a hadron by species whose status magnitude lies in [81,89]
Accepted(p) == p.hadron /\ p.status \in PrimaryRange

Candidates(ev) == {i \in Indices(ev) : Accepted(at(ev, i))}

\* C1: the candidate set first_emitted builds is exactly the set of indices
\* of hadrons with 81 <= abs(status) <= 89, each paired with its status:
\* hadrons of status 81, 89, -81, -89 are candidates; status 0, 80, 90, -80,
\* -90 and every non-hadron are not.
C1_Classifier ==
  prog = "first_emitted" =>
    /\ {c[1] : c \in Range(primaryHadrons)} = Candidates(event)
    /\ \A c \in Range(primaryHadrons) : c[2] = at(event, c[1]).status
    /\ \A i \in Indices(event) :
         LET q == at(event, i)
             in == \E c \in Range(primaryHadrons) : c[1] = i
         IN /\ q.hadron /\ q.status \in {81, 89, -81, -89} => in
            /\ q.status \in {0, 80, 90, -80, -90} => ~in
            /\ ~q.hadron => ~in

\* a list with an accepted hadron of negative status next to a hadron of
\* status 90 and a non-hadron of status in range
C1_Witness ==
  /\ prog = "first_emitted"
  /\ Len(event) = 2
  /\ Len(primaryHadrons) = 1
  /\ primaryHadrons[1][2] = -89
  /\ \E i \in Indices(event) :
       \/ at(event, i).hadron /\ at(event, i).status = 90
       \/ ~at(event, i).hadron /\ at(event, i).status = 81

\* the rows of the file from position n + 1 on
RowsFrom(f, n) == SubSeq(f.lines, n + 1, Len(f.lines))

\* a step that called pythia.next()
Iterated == Len(attempted') = Len(attempted) + 1

LastAttempt == attempted'[Len(attempted')]

\* C2: an iteration of first_emitted over an event with no primary-hadron
\* candidate leaves the file as it was and moves on to the next event.
C2_NoCandidatesNoRows ==
  [][(prog = "first_emitted" /\ Iterated /\ LastAttempt.ok
        /\ Candidates(event') = {})
       => /\ csvFile' = csvFile
          /\ iEvent' = iEvent + 1
          /\ pc' = "loop"]_vars

\* event 0 exported a row, event 1 was generated but held no candidate
C2_Witness ==
  /\ prog = "first_emitted"
  /\ iEvent = 2
  /\ console = 0
  /\ event # <<>>
  /\ Candidates(event) = {}
  /\ Len(DataRows) = 1
  /\ DataRows[1].Event = <<"0">>

\* C3: every row of the file describes a particle with abs(status) in
\* [81,89] in first_emitted, and a final particle (status > 0) in main,
\* jinghong-test and hadronic50gev.
C3_RowStatus ==
  \A j \in 1..Len(DataRows) :
    IF prog = "first_emitted"
    THEN DataRows[j].particle.status \in PrimaryRange
    ELSE DataRows[j].particle.status > 0

\* a finished run of first_emitted with a failed event and two rows, one of
\* a decayed primary hadron
C3_Witness ==
  /\ prog = "first_emitted"
  /\ pc = "done"
  /\ console = 1
  /\ Len(DataRows) = 2
  /\ \E j \in 1..2 : DataRows[j].particle.status < 0

\* the production time the resolver uses for the candidate of index idx
TimeOf(ev, idx) ==
  IF at(ev, idx).vt = NoVertex THEN [u |-> idx, t |-> 0]
  ELSE [u |-> 0, t |-> at(ev, idx).vt]

\* a is at most timeTolerance later than b, for a not earlier than b
AtMostToleranceLater(a, b) == a.u = b.u /\ a.t - b.t <= timeTolerance

Earlier(a, b) == a.u < b.u \/ (a.u = b.u /\ a.t < b.t)

\* C4: with a non-empty candidate set the simultaneity group is non-empty,
\* its members are candidates, and each member's production time is within
\* the tolerance of the least production time of the candidates.
C4_Group ==
  (prog = "first_emitted" /\ Candidates(event) # {}) =>
    /\ simultaneousFirstHadrons # <<>>
    /\ Range(simultaneousFirstHadrons) \subseteq Candidates(event)
    /\ \E m \in Candidates(event) :
         /\ \A c \in Candidates(event) : ~Earlier(TimeOf(event, c), TimeOf(event, m))
         /\ \A g \in Range(simultaneousFirstHadrons) :
              AtMostToleranceLater(TimeOf(event, g), TimeOf(event, m))

\* two candidates in list order late-then-early, both in the group, their
\* times one tolerance apart
C4_Witness ==
  /\ prog = "first_emitted"
  /\ Len(primaryHadrons) = 2
  /\ Len(simultaneousFirstHadrons) = 2
  /\ TimeOf(event, 0) = [u |-> 0, t |-> 1]
  /\ TimeOf(event, 1) = [u |-> 0, t |-> 0]
\* the lines a step appended to the file
Appended == RowsFrom(csvFile', Len(csvFile.lines))

\* a step of an exporting loop whose pythia.next() succeeded
Exported(p) == prog = p /\ Iterated /\ LastAttempt.ok /\ LastAttempt.loop = "loop"

FinalPions(ev) ==
  {i \in Indices(ev) : /\ abs(at(ev, i).id) \in {111, 211}
                       /\ at(ev, i).status > 0
                       /\ at(ev, i).e > 0}

Finals(ev) == {i \in Indices(ev) : at(ev, i).status > 0}

\* C5 as claimed: a successfully generated event appends as many rows as
\* its simultaneity group has members in first_emitted, and exactly one row
\* in hadronic50gev and jinghong-test.
C5_Original ==
  [][/\ Exported("first_emitted") => Len(Appended) = Len(simultaneousFirstHadrons')
     /\ Exported("hadronic50gev") => Len(Appended) = 1
     /\ Exported("jinghong-test") => Len(Appended) = 1]_vars

\* C5 as amended: a successfully generated event appends as many rows as its
\* simultaneity group has members in first_emitted (none when there is no
\* candidate); in hadronic50gev one row when the event holds a final pion
\* of positive energy and none otherwise; in jinghong-test one row when the
\* event holds a final particle and none otherwise.
C5_RowsPerEvent ==
  [][/\ Exported("first_emitted") =>
          /\ Len(Appended) = Len(simultaneousFirstHadrons')
          /\ Candidates(event') = {} => Len(Appended) = 0
     /\ Exported("hadronic50gev") =>
          Len(Appended) = IF FinalPions(event') # {} THEN 1 ELSE 0
     /\ Exported("jinghong-test") =>
          Len(Appended) = IF Finals(event') # {} THEN 1 ELSE 0]_vars

\* hadronic50gev after two generated events: the first gave a row, the
\* second, not empty, held no final pion and gave none
C5_Witness ==
  /\ prog = "hadronic50gev"
  /\ iEvent = 2
  /\ console = 0
  /\ event # <<>>
  /\ FinalPions(event) = {}
  /\ Len(DataRows) = 1
  /\ DataRows[1].Event = <<"0">>

\* C6 as claimed: the production times of one event are all list indices
\* when the vertex of any candidate is unavailable, and all vertex times
\* otherwise.
C6_NoMixedModes ==
  (prog = "first_emitted" /\ hadronTimes # <<>>) =>
    LET fallback == \E c \in Candidates(event) : at(event, c).vt = NoVertex
    IN \A h \in Range(hadronTimes) :
         h[1] = IF fallback THEN [u |-> h[2], t |-> 0]
                ELSE [u |-> 0, t |-> at(event, h[2]).vt]

\* the event of a hadronic50gev run whose only next() succeeded
PionEvent ==
  /\ prog = "hadronic50gev"
  /\ Len(attempted) = 1
  /\ attempted[1].ok

\* C7 as claimed: the row exported is that of the final particle with id in
\* {111, 211, -211} whose energy is strictly above that of every other such
\* particle, and no row is exported exactly when there is no such particle.
C7_Original ==
  PionEvent =>
    LET pions == {i \in Indices(event) : /\ at(event, i).id \in {111, 211, -211}
                                         /\ at(event, i).status > 0}
    IN /\ DataRows = <<>> <=> pions = {}
       /\ DataRows # <<>> =>
            /\ Len(DataRows) = 1
            /\ DataRows[1].Index \in pions
            /\ \A j \in pions \ {DataRows[1].Index} :
                 at(event, DataRows[1].Index).e > at(event, j).e

\* C7 as amended: the row exported is that of the final particle with
\* abs(id) in {111, 211} and energy > 0 whose energy is the greatest among
\* such particles, the one of least index when several share it; no row is
\* exported exactly when there is no such particle.
C7_MostEnergeticPion ==
  PionEvent =>
    /\ DataRows = <<>> <=> FinalPions(event) = {}
    /\ mostEnergeticPion = -1 <=> FinalPions(event) = {}
    /\ DataRows # <<>> =>
         /\ Len(DataRows) = 1
         /\ DataRows[1].Index = mostEnergeticPion
         /\ DataRows[1].particle = at(event, mostEnergeticPion)
         /\ mostEnergeticPion \in FinalPions(event)
         /\ \A j \in FinalPions(event) :
              \/ at(event, j).e < at(event, mostEnergeticPion).e
              \/ at(event, j).e = at(event, mostEnergeticPion).e
                   /\ j >= mostEnergeticPion

\* two final pions of the same energy: the first is exported
C7_Witness ==
  /\ PionEvent
  /\ FinalPions(event) = {0, 1}
  /\ at(event, 0).e = at(event, 1).e
  /\ Len(DataRows) = 1
  /\ DataRows[1].Index = 0

\* C8: a step whose pythia.next() failed prints one notice, appends nothing
\* to the file, stays in its loop and moves to the next event index; no
\* later call of next() in that loop is for the index of a failed one.
C8_FailureSkips ==
  [][Iterated =>
       /\ LastAttempt.i = iEvent
       /\ \A j \in 1..Len(attempted) :
            (attempted[j].loop = LastAttempt.loop /\ ~attempted[j].ok)
              => attempted[j].i < LastAttempt.i
       /\ ~LastAttempt.ok =>
            /\ console' = console + 1
            /\ csvFile' = csvFile
            /\ iEvent' = iEvent + 1
            /\ pc' = pc]_vars

\* main: event 0 of the export loop failed, event 1 was generated and
\* exported; the rows of the file are those of event 1
C8_Witness ==
  /\ prog = "main"
  /\ pc = "loop"
  /\ iEvent = 2
  /\ Len(attempted) >= 2
  /\ attempted[Len(attempted) - 1] = [loop |-> "loop", i |-> 0, ok |-> FALSE]
  /\ attempted[Len(attempted)] = [loop |-> "loop", i |-> 1, ok |-> TRUE]
  /\ DataRows # <<>>
  /\ \A j \in 1..Len(DataRows) : DataRows[j].Event = <<"1">>

IsExportAttempt(a) == a.loop = "loop"

IsPrintAttempt(a) == a.loop = "print"

\* the indices 0, 1, ... in ascending order, each once
Ascending(s) == \A j \in 1..Len(s) : s[j].i = j - 1

IsHeader(line) == line.kind = "header"

\* the file and the attempts at any moment of a run
C9_State ==
  /\ Ascending(SelectSeq(attempted, IsExportAttempt))
  /\ Ascending(SelectSeq(attempted, IsPrintAttempt))
  /\ csvFile.opens <= 1
  /\ csvFile.closes <= csvFile.opens
  /\ Len(SelectSeq(csvFile.lines, IsHeader)) = csvFile.opens
  /\ csvFile.lines # <<>> => IsHeader(csvFile.lines[1])
  /\ SelectSeq(attempted, IsExportAttempt) # <<>> => csvFile.opens = 1
  /\ csvFile.closes = 1 <=> pc = "done"
  /\ pc = "done" =>
       /\ Len(SelectSeq(attempted, IsExportAttempt)) = nEvent
       /\ csvFile.opens = 1

\* a row is appended to the open file only
C9_Step ==
  Len(SelectSeq(Appended, IsRow)) > 0 =>
    /\ csvFile.opens = 1 /\ csvFile.closes = 0
    /\ csvFile'.opens = 1 /\ csvFile'.closes = 0
    /\ csvFile.lines # <<>> /\ IsHeader(csvFile.lines[1])

\* C9: every run ends; each loop attempts the indices 0..nEvent-1 once each
\* in ascending order; the file is opened and its header written once,
\* before the first iteration of the exporting loop, and closed once, after
\* the last, every row being written in between.
C9_RunsToCompletion ==
  /\ <>(pc = "done")
  /\ []C9_State
  /\ [][C9_Step]_vars

\* a finished run of first_emitted: one event failed, one exported
C9_Witness ==
  /\ prog = "first_emitted"
  /\ pc = "done"
  /\ console = 1
  /\ DataRows # <<>>
  /\ csvFile.closes = 1

HasSuffix(field) == \E j \in 1..Len(field) : field[j] = "_"

\* C10: the rows first_emitted appends for event i carry the Event field i
\* when the group has one member, and i_k for the k-th member in resolver
\* order when it has more; a suffix is there exactly when the event exports
\* more than one row; no two rows of the file have the same Event field.
C10_EventField ==
  /\ [](prog = "first_emitted" =>
          \A j, k \in 1..Len(DataRows) :
            j # k => DataRows[j].Event # DataRows[k].Event)
  /\ [][Exported("first_emitted") =>
          LET group == simultaneousFirstHadrons'
              n == Len(group)
          IN /\ Len(Appended) = n
             /\ n = 1 => Appended[1].Event = to_string(iEvent)
             /\ \A k \in 1..n :
                  /\ Appended[k].Index = group[k]
                  /\ HasSuffix(Appended[k].Event) <=> n > 1
                  /\ n > 1 => Appended[k].Event =
                                to_string(iEvent) \o <<"_">> \o to_string(k)]_vars

\* event 0 exported two simultaneous hadrons, event 1 a single one
C10_Witness ==
  /\ prog = "first_emitted"
  /\ Len(DataRows) = 3
  /\ DataRows[1].Event = <<"0", "_", "1">>
  /\ DataRows[2].Event = <<"0", "_", "2">>
  /\ DataRows[3].Event = <<"1">>
\* a candidate whose production time is least among the candidates of ev
Earliest(ev) ==
  CHOOSE m \in Candidates(ev) :
    \A c \in Candidates(ev) : ~Earlier(TimeOf(ev, c), TimeOf(ev, m))

\* time - earliest <= tolerance, tested on a time whatever its position
Simultaneity(time, earliest) ==
  Earlier(time, earliest) \/ AtMostToleranceLater(time, earliest)

\* the candidates of ev within the tolerance of the least production time
FullGroup(ev) ==
  {c \in Candidates(ev) : Simultaneity(TimeOf(ev, c), TimeOf(ev, Earliest(ev)))}

IsSimultaneous(h) == Simultaneity(h[1], hadronTimes[1][1])

\* C11: the group the loop with its break builds is the one obtained by
\* testing every entry of hadronTimes against the tolerance, and its
\* members are exactly the candidates within the tolerance of the least
\* production time, each once.
C11_EarlyStop ==
  (prog = "first_emitted" /\ Candidates(event) # {}) =>
    /\ simultaneousFirstHadrons =
         [j \in 1..Len(SelectSeq(hadronTimes, IsSimultaneous)) |->
            SelectSeq(hadronTimes, IsSimultaneous)[j][2]]
    /\ Range(simultaneousFirstHadrons) = FullGroup(event)
    /\ Len(simultaneousFirstHadrons) = Cardinality(FullGroup(event))

\* three candidates, the earliest second in the list: the break is taken at
\* the second entry of the sorted list, two tolerances late, and the third
\* entry, later still, is never visited
C11_Witness ==
  /\ prog = "first_emitted"
  /\ Len(hadronTimes) = 3
  /\ Len(simultaneousFirstHadrons) = 1
  /\ hadronTimes[1][1] = [u |-> 0, t |-> 0]
  /\ hadronTimes[2][1] = [u |-> 0, t |-> 2]
  /\ hadronTimes[3][1] = [u |-> 2, t |-> 0]
  /\ hadronTimes[1][2] = 1
\* C12: hadronTimes after the sort holds every candidate once, with its
\* production time, in non-decreasing order of time, candidates of equal
\* time in ascending list index; the group is the front of that order and
\* the rows of the event follow the group.
C12_ResolverOrder ==
  (prog = "first_emitted" /\ Candidates(event) # {}) =>
    /\ {h[2] : h \in Range(hadronTimes)} = Candidates(event)
    /\ Len(hadronTimes) = Cardinality(Candidates(event))
    /\ \A j \in 1..Len(hadronTimes) :
         hadronTimes[j][1] = TimeOf(event, hadronTimes[j][2])
    /\ \A j, k \in 1..Len(hadronTimes) :
         j < k =>
           /\ ~Earlier(hadronTimes[k][1], hadronTimes[j][1])
           /\ hadronTimes[j][1] = hadronTimes[k][1]
                => hadronTimes[j][2] < hadronTimes[k][2]
    /\ Len(simultaneousFirstHadrons) <= Len(hadronTimes)
    /\ \A j \in 1..Len(simultaneousFirstHadrons) :
         simultaneousFirstHadrons[j] = hadronTimes[j][2]
    /\ Len(DataRows) = Len(simultaneousFirstHadrons)
    /\ \A j \in 1..Len(DataRows) :
         DataRows[j].Index = simultaneousFirstHadrons[j]

\* the candidate of index 0 is the latest, those of index 1 and 2 share the
\* earliest time: the order is 1, 2, 0 and the two rows are those of 1 and 2
C12_Witness ==
  /\ prog = "first_emitted"
  /\ Len(hadronTimes) = 3
  /\ hadronTimes[1][1] = hadronTimes[2][1]
  /\ hadronTimes[1][2] = 1
  /\ hadronTimes[2][2] = 2
  /\ hadronTimes[3][2] = 0
  /\ Len(DataRows) = 2
  /\ DataRows[1].Index = 1
  /\ DataRows[2].Index = 2
====
